---- MODULE Spec2Model ----
(***************************************************************************)
(* State-machine model of claude-provider (src/src/main.rs): provider      *)
(* profile files, the live settings file, the shell function files and rc  *)
(* files, and the operations setup / remove / list / use.                  *)
(*                                                                         *)
(* Text files are sequences of tokens.  "NL" is a line feed, "SP" a run of *)
(* blanks, "MK" the literal "# Provider function for ", "FN" the literal   *)
(* "() {", "USE" the literal "claude-provider use ", "ARGS" the literal    *)
(* " \"$@\"", "RB" the literal "}", "source " the literal "source ", "#"   *)
(* a comment sign and "X" any other text.  A name is a non-empty sequence  *)
(* of name tokens.                                                         *)
(***************************************************************************)
EXTENDS Integers, Sequences, FiniteSets, TLC

VARIABLES fs, run, listed, registered, last

vars == <<fs, run, listed, registered, last>>

-----------------------------------------------------------------------------
(* Paths and file names                                                    *)

PROVIDERS_DIR == "providers"

SETTINGS_FILE == <<"settings", ".json">>

Shells == {"Bash", "Zsh"}

func_file_name(shell) ==
    IF shell = "Bash" THEN <<"provider-functions", ".bash">>
    ELSE <<"provider-functions", ".zsh">>

rc_file_name(shell) ==
    IF shell = "Bash" THEN <<".bashrc">> ELSE <<".zshrc">>

HomeDir == <<"HOME">>

PathJoin(dir, file) == [dir |-> dir, file |-> file]

\* get_config_dir: HOME/.claude, created when missing; Ok in every run modelled
get_config_dir == HomeDir \o <<".claude">>

\* get_providers_dir: the Ok branch of get_config_dir() returns the config
\* directory itself; only the Err branch appends PROVIDERS_DIR
get_providers_dir_of(config_ok) ==
    IF config_ok THEN get_config_dir
    ELSE HomeDir \o <<".claude">> \o <<PROVIDERS_DIR>>

get_providers_dir == get_providers_dir_of(TRUE)

ensure_providers_dir == get_providers_dir

source_command(shell, path) == <<"source ">> \o path.file

-----------------------------------------------------------------------------
(* Files                                                                   *)

NoText == [exists |-> FALSE, data |-> <<>>]

TextFile(data) == [exists |-> TRUE, data |-> data]

-----------------------------------------------------------------------------
(* str helpers: trim, lines, join, starts_with, contains                   *)

IsWhite(t) == t \in {"SP", "NL"}

RECURSIVE TrimStart(_)
TrimStart(s) ==
    IF s = <<>> THEN s
    ELSE IF IsWhite(Head(s)) THEN TrimStart(Tail(s)) ELSE s

RECURSIVE TrimEnd(_)
TrimEnd(s) ==
    IF s = <<>> THEN s
    ELSE IF IsWhite(s[Len(s)]) THEN TrimEnd(SubSeq(s, 1, Len(s) - 1)) ELSE s

Trim(s) == TrimEnd(TrimStart(s))

StartsWith(s, p) == Len(p) <= Len(s) /\ SubSeq(s, 1, Len(p)) = p

Contains(s, p) ==
    \E i \in 1..(Len(s) - Len(p) + 1) : SubSeq(s, i, i + Len(p) - 1) = p

FirstNL(s) ==
    IF \E i \in 1..Len(s) : s[i] = "NL"
    THEN CHOOSE i \in 1..Len(s) : s[i] = "NL" /\ \A j \in 1..(i - 1) : s[j] # "NL"
    ELSE 0

\* str::lines: split at line feeds; a final empty piece is not a line
RECURSIVE Lines(_)
Lines(s) ==
    IF s = <<>> THEN <<>>
    ELSE LET i == FirstNL(s)
         IN IF i = 0 THEN <<s>>
            ELSE <<SubSeq(s, 1, i - 1)>> \o Lines(SubSeq(s, i + 1, Len(s)))

\* [&str]::join("\n")
RECURSIVE Join(_)
Join(ls) ==
    IF ls = <<>> THEN <<>>
    ELSE IF Len(ls) = 1 THEN ls[1]
    ELSE ls[1] \o <<"NL">> \o Join(Tail(ls))

-----------------------------------------------------------------------------
(* Shell function blocks                                                   *)

Marker(name) == <<"MK">> \o name

func_content(name) ==
    <<"MK">> \o name \o <<"NL">>
    \o name \o <<"FN", "NL">>
    \o <<"SP", "USE">> \o name \o <<"ARGS", "NL">>
    \o <<"RB", "NL">>

\* the line scan shared by remove_provider_function_from_file and
\* append_provider_function_to_file: the lines kept in cleaned_lines
RECURSIVE cleaned_lines(_, _, _)
cleaned_lines(lines, marker, in_function_block) ==
    IF lines = <<>> THEN <<>>
    ELSE LET line == Head(lines)
             rest == Tail(lines)
         IN IF StartsWith(line, marker)
            THEN cleaned_lines(rest, marker, TRUE)
            ELSE IF in_function_block
                 THEN cleaned_lines(rest, marker, Trim(line) # <<"RB">>)
                 ELSE <<line>> \o cleaned_lines(rest, marker, FALSE)

cleaned(text, name) == Trim(Join(cleaned_lines(Lines(text), Marker(name), FALSE)))

\* remove_provider_function_from_file writing the remainder even when blank
RemoveLeavingEmptyFile(file, provider_name) ==
    IF ~file.exists THEN file
    ELSE TextFile(cleaned(file.data, provider_name))

\* remove_provider_function_from_file, as a function of the file
remove_provider_function_from_file(file, provider_name) ==
    IF ~file.exists THEN file
    ELSE LET c == cleaned(file.data, provider_name)
         IN IF c = <<>> THEN NoText ELSE TextFile(c)

\* append_provider_function_to_file: the new function file
new_content(file, name) ==
    LET existing == IF file.exists THEN file.data ELSE <<>>
        c == cleaned(existing, name)
    IN IF c = <<>> THEN func_content(name)
       ELSE c \o <<"NL", "NL">> \o func_content(name)

\* append_provider_function_to_file: the new rc file
new_rc(rc, source_line) ==
    IF rc.exists
    THEN IF ~Contains(rc.data, source_line)
         THEN TextFile(Trim(rc.data) \o <<"NL">> \o source_line \o <<"NL">>)
         ELSE rc
    ELSE TextFile(source_line \o <<"NL">>)

FuncPath(shell) == PathJoin(get_config_dir, func_file_name(shell))

RcPath(shell) == PathJoin(HomeDir, rc_file_name(shell))

append_provider_function_to_file(f, func_path, rc_path, name, shell) ==
    [f EXCEPT ![func_path] = TextFile(new_content(f[func_path], name)),
              ![rc_path] = new_rc(f[rc_path], source_command(shell, func_path))]

\* append_provider_function: Bash, then Zsh
append_provider_function(f, name) ==
    LET f1 == append_provider_function_to_file(f, FuncPath("Bash"), RcPath("Bash"), name, "Bash")
    IN append_provider_function_to_file(f1, FuncPath("Zsh"), RcPath("Zsh"), name, "Zsh")

\* remove_provider_function also deleting the rc file of a dialect whose
\* function file is gone
RemoveAlsoDroppingRc(f, provider_name) ==
    LET g == [f EXCEPT ![FuncPath("Bash")] =
                  remove_provider_function_from_file(f[FuncPath("Bash")], provider_name),
              ![FuncPath("Zsh")] =
                  remove_provider_function_from_file(f[FuncPath("Zsh")], provider_name)]
    IN [p \in DOMAIN g |->
          IF \E sh \in Shells : p = RcPath(sh) /\ ~g[FuncPath(sh)].exists
          THEN NoText ELSE g[p]]

\* remove_provider_function: Bash, then Zsh
remove_provider_function(f, provider_name) ==
    [f EXCEPT ![FuncPath("Bash")] =
                  remove_provider_function_from_file(f[FuncPath("Bash")], provider_name),
              ![FuncPath("Zsh")] =
                  remove_provider_function_from_file(f[FuncPath("Zsh")], provider_name)]

-----------------------------------------------------------------------------
(* JSON documents.  A JSON file holds [ok, fmt, doc]: ok says whether the   *)
(* text parses, fmt is its layout, doc the value it denotes.  Values are    *)
(* tagged: <<"str", s>>, <<"num", n>>, <<"bool", b>>, <<"null", "">>,       *)
(* <<"arr", "">> and <<"obj", f>> with f a function from keys to values.    *)

JNull == <<"null", "">>

JStr(s) == <<"str", s>>

JNum(n) == <<"num", n>>

JArr == <<"arr", "">>

JObj(f) == <<"obj", f>>

EmptyMap == [k \in {} |-> JNull]

IsObj(v) == v[1] = "obj"

\* serde_json::Map::insert
Insert(f, key, val) ==
    [k \in DOMAIN f \cup {key} |-> IF k = key THEN val ELSE f[k]]

Garbage == [ok |-> FALSE, fmt |-> "none", doc |-> JNull]

NoJson == [exists |-> FALSE, data |-> Garbage]

JsonFile(data) == [exists |-> TRUE, data |-> data]

\* serde_json::from_str::<Value>
from_str(text) == [ok |-> text.ok, doc |-> text.doc]

\* serde_json::to_string_pretty
to_string_pretty(doc) == [ok |-> TRUE, fmt |-> "pretty", doc |-> doc]

-----------------------------------------------------------------------------
(* EnvSettings and ClaudeSettings                                          *)

None == <<"None", "">>

Some(v) == <<"Some", v>>

IsSome(o) == o[1] = "Some"

StringFields ==
    {"anthropic_base_url", "anthropic_auth_token", "api_timeout_ms",
     "anthropic_model", "anthropic_small_fast_model",
     "anthropic_default_sonnet_model", "anthropic_default_opus_model",
     "anthropic_default_haiku_model"}

IntFields == {"claude_code_disable_nonessential_traffic"}

EnvFields == StringFields \cup IntFields

DefaultEnv == [k \in EnvFields |-> None]

\* Some(s).filter(|s| !s.is_empty())
FilterNonEmpty(s) == IF s # <<>> THEN Some(s) ELSE None

\* Serialize for Option<T>: None is written as null
OptionToJson(k, o) ==
    IF ~IsSome(o) THEN JNull
    ELSE IF k \in IntFields THEN JNum(o[2]) ELSE JStr(o[2])

\* Deserialize for Option<String> / Option<i32>: a missing key or null is None
FieldOk(k, f) ==
    \/ k \notin DOMAIN f
    \/ f[k][1] = "null"
    \/ f[k][1] = (IF k \in IntFields THEN "num" ELSE "str")

FieldOf(k, f) ==
    IF k \notin DOMAIN f \/ f[k][1] = "null" THEN None ELSE Some(f[k][2])

\* Serialize for ClaudeSettings as setup_provider_interactive builds it
SerializeClaudeSettings(env) ==
    JObj([k \in {"env", "enabled_plugins", "always_thinking_enabled"} |->
            IF k = "env" THEN JObj([e \in EnvFields |-> OptionToJson(e, env[e])])
            ELSE IF k = "enabled_plugins" THEN JObj(EmptyMap)
            ELSE JNull])

\* serde_json::from_str::<ClaudeSettings>: the env member of the result
DeserializeClaudeSettings(text) ==
    IF ~text.ok \/ ~IsObj(text.doc) THEN [ok |-> FALSE, env |-> DefaultEnv]
    ELSE LET top == text.doc[2]
         IN IF /\ "always_thinking_enabled" \in DOMAIN top
               /\ top["always_thinking_enabled"][1] \notin {"null", "bool"}
            THEN [ok |-> FALSE, env |-> DefaultEnv]
            ELSE IF "env" \notin DOMAIN top THEN [ok |-> TRUE, env |-> DefaultEnv]
            ELSE IF ~IsObj(top["env"]) THEN [ok |-> FALSE, env |-> DefaultEnv]
            ELSE LET e == top["env"][2]
                 IN IF \A k \in EnvFields : FieldOk(k, e)
                    THEN [ok |-> TRUE, env |-> [k \in EnvFields |-> FieldOf(k, e)]]
                    ELSE [ok |-> FALSE, env |-> DefaultEnv]

EnvKey ==
    [anthropic_base_url |-> "ANTHROPIC_BASE_URL",
     anthropic_auth_token |-> "ANTHROPIC_AUTH_TOKEN",
     api_timeout_ms |-> "API_TIMEOUT_MS",
     claude_code_disable_nonessential_traffic |-> "CLAUDE_CODE_DISABLE_NONESSENTIAL_TRAFFIC",
     anthropic_model |-> "ANTHROPIC_MODEL",
     anthropic_small_fast_model |-> "ANTHROPIC_SMALL_FAST_MODEL",
     anthropic_default_sonnet_model |-> "ANTHROPIC_DEFAULT_SONNET_MODEL",
     anthropic_default_opus_model |-> "ANTHROPIC_DEFAULT_OPUS_MODEL",
     anthropic_default_haiku_model |-> "ANTHROPIC_DEFAULT_HAIKU_MODEL"]

FieldOfKey(K) == CHOOSE k \in EnvFields : EnvKey[k] = K

\* build_env_object: one key per field that is Some
build_env_object(env) ==
    [K \in {EnvKey[k] : k \in {j \in EnvFields : IsSome(env[j])}} |->
        OptionToJson(FieldOfKey(K), env[FieldOfKey(K)])]

\* prompt_input: the line read, trimmed
prompt_input(raw) == Trim(raw)

\* SetupEnv without the is_empty filter on the small-fast model
SetupEnvUnfiltered(base_url, api_key, default_model, haiku_model) ==
    [anthropic_base_url |-> Some(base_url),
     anthropic_auth_token |-> Some(api_key),
     api_timeout_ms |-> Some(<<"3000000">>),
     claude_code_disable_nonessential_traffic |-> Some(1),
     anthropic_model |-> FilterNonEmpty(default_model),
     anthropic_small_fast_model |-> Some(default_model),
     anthropic_default_sonnet_model |-> FilterNonEmpty(default_model),
     anthropic_default_opus_model |-> FilterNonEmpty(default_model),
     anthropic_default_haiku_model |-> FilterNonEmpty(haiku_model)]

\* the EnvSettings value setup_provider_interactive builds
SetupEnv(base_url, api_key, default_model, haiku_model) ==
    [anthropic_base_url |-> Some(base_url),
     anthropic_auth_token |-> Some(api_key),
     api_timeout_ms |-> Some(<<"3000000">>),
     claude_code_disable_nonessential_traffic |-> Some(1),
     anthropic_model |-> FilterNonEmpty(default_model),
     anthropic_small_fast_model |-> FilterNonEmpty(default_model),
     anthropic_default_sonnet_model |-> FilterNonEmpty(default_model),
     anthropic_default_opus_model |-> FilterNonEmpty(default_model),
     anthropic_default_haiku_model |-> FilterNonEmpty(haiku_model)]

ProviderPath(name) == PathJoin(ensure_providers_dir, name \o <<".json">>)

SettingsPath == PathJoin(get_config_dir, SETTINGS_FILE)

-----------------------------------------------------------------------------
(* list_providers                                                          *)

Rank(t) == IF t = "a" THEN 1 ELSE IF t = "b" THEN 2 ELSE 3

\* Ord for String: byte-wise lexicographic
RECURSIVE LexLess(_, _)
LexLess(x, y) ==
    IF y = <<>> THEN FALSE
    ELSE IF x = <<>> THEN TRUE
    ELSE IF Rank(Head(x)) # Rank(Head(y)) THEN Rank(Head(x)) < Rank(Head(y))
    ELSE LexLess(Tail(x), Tail(y))

\* Vec::sort on the names collected from the directory
RECURSIVE SortNames(_)
SortNames(S) ==
    IF S = {} THEN <<>>
    ELSE LET m == CHOOSE x \in S : \A y \in S \ {x} : LexLess(x, y)
         IN <<m>> \o SortNames(S \ {m})

\* Path::extension and Path::file_stem
Extension(file) == IF Len(file) > 1 THEN file[Len(file)] ELSE ""

FileStem(file) == IF Len(file) > 1 THEN SubSeq(file, 1, Len(file) - 1) ELSE file

\* fs::read_dir
ReadDir(f, dir) == {p \in DOMAIN f : p.dir = dir /\ f[p].exists}

list_providers(f) ==
    SortNames({FileStem(p.file) :
                 p \in {q \in ReadDir(f, ensure_providers_dir) : Extension(q.file) = ".json"}})

-----------------------------------------------------------------------------
(* State                                                                   *)

AllNames == {<<"a">>, <<"a", "b">>, <<"b">>, <<"settings">>}

Paths ==
    {ProviderPath(n) : n \in AllNames} \cup {SettingsPath}
    \cup {FuncPath(sh) : sh \in Shells} \cup {RcPath(sh) : sh \in Shells}

IsJsonPath(p) == Extension(p.file) = ".json"

IdleRun ==
    [pc |-> "idle", provider |-> <<>>, snapshot |-> Garbage, env |-> DefaultEnv,
     status |-> "none", result |-> "none", before |-> NoJson,
     profile |-> NoJson, writes |-> 0,
     launched |-> FALSE]

Idle(r) == r.pc \in {"idle", "returned", "panicked"}

AllIdle == \A i \in DOMAIN run : Idle(run[i])

NoList == [valid |-> FALSE, names |-> <<>>]

\* the most recent shell-integration call, and whether any register was made
NoOp == [op |-> "none", name |-> <<>>, any_register |-> FALSE]

\* settings.json as another program or the user left it
OldEnv == [k \in {"ANTHROPIC_BASE_URL", "KEEP"} |-> JStr(<<"old">>)]

InitSettings ==
    {NoJson,
     JsonFile(Garbage),
     JsonFile([ok |-> TRUE, fmt |-> "compact",
               doc |-> JObj([k \in {"env", "theme"} |->
                               IF k = "env" THEN JObj(OldEnv) ELSE JStr(<<"dark">>)])]),
     JsonFile([ok |-> TRUE, fmt |-> "pretty",
               doc |-> JObj([k \in {"theme"} |-> JStr(<<"dark">>)])]),
     JsonFile([ok |-> TRUE, fmt |-> "compact", doc |-> JArr])}

\* a profile file written by hand rather than by setup
HandEnv ==
    [k \in {"anthropic_base_url", "anthropic_model", "api_timeout_ms"} |->
        IF k = "anthropic_base_url" THEN JStr(<<"u">>)
        ELSE IF k = "anthropic_model" THEN JStr(<<>>)
        ELSE JNull]

InitHandProfiles ==
    {NoJson,
     JsonFile(Garbage),
     JsonFile([ok |-> TRUE, fmt |-> "compact",
               doc |-> JObj([k \in {"env"} |-> JObj(HandEnv)])])}

HandName == <<"b">>

Init ==
    /\ \E st \in InitSettings, hp \in InitHandProfiles :
          fs = [p \in Paths |->
                  IF p = SettingsPath THEN st
                  ELSE IF p = ProviderPath(HandName) THEN hp
                  ELSE IF IsJsonPath(p) THEN NoJson
                  ELSE NoText]
    /\ run = [i \in {1} |-> IdleRun]
    /\ listed = NoList
    /\ registered = {n \in {HandName} : fs[ProviderPath(n)].exists}
    /\ last = NoOp

-----------------------------------------------------------------------------
(* setup, remove, list                                                     *)

NameInputs == {<<"a", "NL">>, <<"settings", "NL">>, <<"NL">>}

UrlInputs == {<<"u", "NL">>, <<"SP", "NL">>}

KeyInputs == {<<"k", "NL">>}

ModelInputs == {<<"NL">>, <<"m", "SP", "NL">>}

HaikuInputs == {<<"NL">>, <<"h", "NL">>}

\* setup_provider_interactive: the file system it leaves
SetupFs(f, name, base_url, api_key, default_model, haiku_model) ==
    LET env == SetupEnv(base_url, api_key, default_model, haiku_model)
        content == to_string_pretty(SerializeClaudeSettings(env))
        f1 == [f EXCEPT ![ProviderPath(name)] = JsonFile(content)]
    IN append_provider_function(f1, name)

setup_provider_interactive(rn, ru, rk, rd, rh) ==
    LET name == prompt_input(rn)
        base_url == prompt_input(ru)
        api_key == prompt_input(rk)
    IN /\ AllIdle
       /\ run' = [i \in DOMAIN run |-> IdleRun]
       /\ listed' = NoList
       /\ IF name = <<>> \/ base_url = <<>> \/ api_key = <<>>
          THEN UNCHANGED <<fs, registered>>
          ELSE /\ fs' = SetupFs(fs, name, base_url, api_key,
                                prompt_input(rd), prompt_input(rh))
               /\ registered' = registered \cup {name}
       /\ UNCHANGED last

\* remove_provider_interactive: idx is the menu choice, Len + 1 for Esc
RemoveFs(f, provider_name) ==
    remove_provider_function(
        [f EXCEPT ![ProviderPath(provider_name)] = NoJson], provider_name)

remove_provider_interactive(idx) ==
    LET providers == list_providers(fs)
    IN /\ AllIdle
       /\ idx \in 1..(Len(providers) + 1)
       /\ run' = [i \in DOMAIN run |-> IdleRun]
       /\ listed' = NoList
       /\ IF idx > Len(providers)
          THEN UNCHANGED <<fs, registered>>
          ELSE /\ fs' = RemoveFs(fs, providers[idx])
               /\ registered' = registered \ {providers[idx]}
       /\ UNCHANGED last

list_providers_command ==
    /\ AllIdle
    /\ run' = [i \in DOMAIN run |-> IdleRun]
    /\ listed' = [valid |-> TRUE, names |-> list_providers(fs)]
    /\ UNCHANGED <<fs, registered, last>>

-----------------------------------------------------------------------------
(* run_with_provider, one action per step of the handler                   *)

UseNames == {<<"a">>, <<"b">>, <<"settings">>}

\* Merged adding the profile's variables to the env object already there
MergedKeepingOldEnv(doc, env) ==
    LET block == build_env_object(env)
        old == IF "env" \in DOMAIN doc[2] /\ IsObj(doc[2]["env"])
               THEN doc[2]["env"][2] ELSE EmptyMap
    IN JObj(Insert(doc[2], "env",
                   JObj([K \in DOMAIN old \cup DOMAIN block |->
                           IF K \in DOMAIN block THEN block[K] ELSE old[K]])))

\* the merged document: settings with its "env" member replaced
Merged(doc, env) == JObj(Insert(doc[2], "env", JObj(build_env_object(env))))

Returned(r, result) == [r EXCEPT !.pc = "returned", !.result = result]

\* RunLoad going on with a settings.json that did not parse
RunLoadNoParseCheck(i, provider_name) ==
    LET provider == fs[ProviderPath(provider_name)]
        provider_settings == DeserializeClaudeSettings(provider.data)
        settings_file == fs[SettingsPath]
        r == [IdleRun EXCEPT !.provider = provider_name, !.before = settings_file,
                            !.profile = provider]
    IN /\ Idle(run[i])
       /\ run' = [run EXCEPT ![i] =
                    IF ~provider.exists THEN Returned(r, "ErrNotFound")
                    ELSE IF ~provider_settings.ok THEN Returned(r, "ErrProfileParse")
                    ELSE IF ~settings_file.exists THEN Returned(r, "ErrSettingsRead")
                    ELSE [r EXCEPT !.pc = "loaded",
                                   !.snapshot = settings_file.data,
                                   !.env = provider_settings.env]]
       /\ listed' = NoList
       /\ UNCHANGED <<fs, registered, last>>

\* lines 510-524: resolve and read the profile, read and parse settings.json
RunLoad(i, provider_name) ==
    LET provider == fs[ProviderPath(provider_name)]
        provider_settings == DeserializeClaudeSettings(provider.data)
        settings_file == fs[SettingsPath]
        r == [IdleRun EXCEPT !.provider = provider_name, !.before = settings_file,
                            !.profile = provider]
    IN /\ Idle(run[i])
       /\ run' = [run EXCEPT ![i] =
                    IF ~provider.exists THEN Returned(r, "ErrNotFound")
                    ELSE IF ~provider_settings.ok THEN Returned(r, "ErrProfileParse")
                    ELSE IF ~settings_file.exists THEN Returned(r, "ErrSettingsRead")
                    ELSE IF ~from_str(settings_file.data).ok
                         THEN Returned(r, "ErrSettingsParse")
                    ELSE [r EXCEPT !.pc = "loaded",
                                   !.snapshot = settings_file.data,
                                   !.env = provider_settings.env]]
       /\ listed' = NoList
       /\ UNCHANGED <<fs, registered, last>>

\* RunSwap leaving the write of the merged document out
RunSwapDeferred(i) ==
    LET settings == from_str(run[i].snapshot).doc
    IN /\ run[i].pc = "loaded"
       /\ IF ~IsObj(settings)
          THEN run' = [run EXCEPT ![i].pc = "panicked", ![i].result = "Panic"]
          ELSE run' = [run EXCEPT ![i].pc = "swapped"]
       /\ UNCHANGED <<fs, listed, registered, last>>

\* lines 526-530: build the env object, insert it, write the merged document
RunSwap(i) ==
    LET settings == from_str(run[i].snapshot).doc
    IN /\ run[i].pc = "loaded"
       /\ IF ~IsObj(settings)
          THEN /\ run' = [run EXCEPT ![i].pc = "panicked", ![i].result = "Panic"]
               /\ UNCHANGED fs
          ELSE /\ fs' = [fs EXCEPT ![SettingsPath] =
                           JsonFile(to_string_pretty(Merged(settings, run[i].env)))]
               /\ run' = [run EXCEPT ![i].pc = "swapped",
                                     ![i].writes = run[i].writes + 1]
       /\ UNCHANGED <<listed, registered, last>>

\* lines 534-537: Command::status; a launch error returns through `?`
RunSpawn(i, launch_ok) ==
    /\ run[i].pc = "swapped"
    /\ run' = [run EXCEPT ![i] =
                 IF launch_ok
                 THEN [run[i] EXCEPT !.pc = "running", !.launched = TRUE]
                 ELSE Returned(run[i], "ErrLaunch")]
    /\ UNCHANGED <<fs, listed, registered, last>>

\* the child process ends; status() returns its exit status
ChildExit(i, success) ==
    /\ run[i].pc = "running"
    /\ run' = [run EXCEPT ![i].pc = "exited",
                          ![i].status = IF success THEN "zero" ELSE "nonzero"]
    /\ UNCHANGED <<fs, listed, registered, last>>

\* RunRestore going on without writing the snapshot back
RunRestoreNoWrite(i, write_ok) ==
    /\ run[i].pc = "exited"
    /\ run' = [run EXCEPT ![i].pc = "restored",
                          ![i].writes = run[i].writes + 1]
    /\ UNCHANGED <<fs, listed, registered, last>>

\* line 539: write the snapshot back; a failed write returns through `?`
RunRestore(i, write_ok) ==
    /\ run[i].pc = "exited"
    /\ IF write_ok
       THEN /\ fs' = [fs EXCEPT ![SettingsPath] = JsonFile(run[i].snapshot)]
            /\ run' = [run EXCEPT ![i].pc = "restored",
                                  ![i].writes = run[i].writes + 1]
       ELSE /\ run' = [run EXCEPT ![i] = Returned(run[i], "ErrRestoreWrite")]
            /\ UNCHANGED fs
    /\ UNCHANGED <<listed, registered, last>>

\* RunReturn not looking at the exit status
RunReturnIgnoringStatus(i) ==
    /\ run[i].pc = "restored"
    /\ run' = [run EXCEPT ![i] = Returned(run[i], "Ok")]
    /\ UNCHANGED <<fs, listed, registered, last>>

\* lines 543-547
RunReturn(i) ==
    /\ run[i].pc = "restored"
    /\ run' = [run EXCEPT ![i] =
                 Returned(run[i], IF run[i].status # "zero" THEN "ErrNonZero" ELSE "Ok")]
    /\ UNCHANGED <<fs, listed, registered, last>>

Setup ==
    \E rn \in NameInputs, ru \in UrlInputs, rk \in KeyInputs,
       rd \in ModelInputs, rh \in HaikuInputs :
        setup_provider_interactive(rn, ru, rk, rd, rh)

Remove == \E idx \in 1..(Cardinality(AllNames) + 1) : remove_provider_interactive(idx)

List == list_providers_command

Use == \E i \in DOMAIN run, p \in UseNames : RunLoad(i, p)

Swap == \E i \in DOMAIN run : RunSwap(i)

Spawn == \E i \in DOMAIN run, ok \in BOOLEAN : RunSpawn(i, ok)

Exit == \E i \in DOMAIN run, ok \in BOOLEAN : ChildExit(i, ok)

Restore == \E i \in DOMAIN run, ok \in BOOLEAN : RunRestore(i, ok)

Return == \E i \in DOMAIN run : RunReturn(i)

Next ==
    \/ Setup
    \/ Remove
    \/ List
    \/ Use
    \/ Swap
    \/ Spawn
    \/ Exit
    \/ Restore
    \/ Return

Spec == Init /\ [][Next]_vars

-----------------------------------------------------------------------------
(* Claims about run_with_provider                                          *)

\* C1: whatever the profile and whatever the child does (exit zero, exit
\* non-zero, cannot be launched), settings.json after run_with_provider
\* returns equals settings.json before the call, unless the restoring write
\* itself failed.
C1_RestoredOnReturn ==
    \A i \in DOMAIN run :
        (run[i].pc = "returned" /\ run[i].result # "ErrRestoreWrite")
            => fs[SettingsPath] = run[i].before

\* the inputs of a call for which C2 promises an abort
BadInputs(r) ==
    \/ ~r.profile.exists
    \/ ~DeserializeClaudeSettings(r.profile.data).ok
    \/ ~r.before.exists
    \/ ~r.before.data.ok

\* C2: a call whose profile file is missing or unparsable, or whose
\* settings.json is missing or unparsable, returns an error, and it has
\* written nothing to settings.json and launched no child.
C2_AbortBeforeMutation ==
    \A i \in DOMAIN run :
        (run[i].pc # "idle" /\ BadInputs(run[i]))
            => /\ run[i].pc = "returned"
               /\ run[i].result \in {"ErrNotFound", "ErrProfileParse",
                                     "ErrSettingsRead", "ErrSettingsParse"}
               /\ run[i].writes = 0
               /\ ~run[i].launched
               /\ fs[SettingsPath] = run[i].before

C2_Witness ==
    \E i \in DOMAIN run :
        /\ run[i].pc = "returned"
        /\ run[i].profile.exists
        /\ ~DeserializeClaudeSettings(run[i].profile.data).ok
        /\ run[i].before.exists
        /\ run[i].before.data.ok

\* C8: while the child runs, settings.json on disk is the original document
\* with only "env" replaced by the profile's environment block: every other
\* key keeps its value, none is dropped, none is added, and no key of the
\* original env object survives unless the profile supplies it.
C8_OnlyEnvReplaced ==
    \A i \in DOMAIN run :
        run[i].pc = "running" =>
            LET orig == run[i].before.data.doc[2]
                live == fs[SettingsPath]
                block == build_env_object(DeserializeClaudeSettings(run[i].profile.data).env)
            IN /\ live.exists
               /\ live.data.ok
               /\ IsObj(live.data.doc)
               /\ DOMAIN live.data.doc[2] = DOMAIN orig \cup {"env"}
               /\ \A k \in DOMAIN orig \ {"env"} : live.data.doc[2][k] = orig[k]
               /\ IsObj(live.data.doc[2]["env"])
               /\ DOMAIN live.data.doc[2]["env"][2] = DOMAIN block
               /\ \A K \in DOMAIN block : live.data.doc[2]["env"][2][K] = block[K]

C8_Witness ==
    \E i \in DOMAIN run :
        /\ run[i].pc = "running"
        /\ "theme" \in DOMAIN run[i].before.data.doc[2]
        /\ "env" \in DOMAIN run[i].before.data.doc[2]
        /\ "KEEP" \in DOMAIN run[i].before.data.doc[2]["env"][2]
        /\ "ANTHROPIC_AUTH_TOKEN" \in DOMAIN fs[SettingsPath].data.doc[2]["env"][2]

-----------------------------------------------------------------------------
(* Claims about setup, remove and list                                     *)

\* C6: no setup, remove or list operation, for any profile name, creates,
\* overwrites or deletes settings.json.
C6_SettingsUntouched ==
    [][(Setup \/ Remove \/ List) => fs'[SettingsPath] = fs[SettingsPath]]_vars

ModelKeys ==
    {"ANTHROPIC_MODEL", "ANTHROPIC_SMALL_FAST_MODEL",
     "ANTHROPIC_DEFAULT_SONNET_MODEL", "ANTHROPIC_DEFAULT_OPUS_MODEL"}

\* the environment block built from the profile file of `name` in f
BlockOf(f, name) ==
    build_env_object(DeserializeClaudeSettings(f[ProviderPath(name)].data).env)

EnvBlockAsSetup(block, d, h) ==
    /\ \A K \in ModelKeys : (K \in DOMAIN block) <=> (d # <<>>)
    /\ \A K \in ModelKeys : K \in DOMAIN block => block[K] = JStr(d)
    /\ ("ANTHROPIC_DEFAULT_HAIKU_MODEL" \in DOMAIN block) <=> (h # <<>>)
    /\ h # <<>> => block["ANTHROPIC_DEFAULT_HAIKU_MODEL"] = JStr(h)
    /\ "API_TIMEOUT_MS" \in DOMAIN block
    /\ block["API_TIMEOUT_MS"] = JStr(<<"3000000">>)
    /\ "CLAUDE_CODE_DISABLE_NONESSENTIAL_TRAFFIC" \in DOMAIN block
    /\ block["CLAUDE_CODE_DISABLE_NONESSENTIAL_TRAFFIC"] = JNum(1)

\* C7: the environment block built from a profile that setup has just saved
\* with default model d and haiku model h (as prompt_input returns them) holds
\* the four default-model variables, all equal to d, exactly when d is not
\* empty, holds the haiku variable, equal to h, exactly when h is not empty,
\* and always holds API_TIMEOUT_MS = "3000000" and
\* CLAUDE_CODE_DISABLE_NONESSENTIAL_TRAFFIC = 1.
C7_EnvBlockOfSetup ==
    [][\A rn \in NameInputs, ru \in UrlInputs, rk \in KeyInputs,
          rd \in ModelInputs, rh \in HaikuInputs :
          (/\ setup_provider_interactive(rn, ru, rk, rd, rh)
           /\ prompt_input(rn) # <<>>
           /\ prompt_input(ru) # <<>>
           /\ prompt_input(rk) # <<>>)
          => /\ fs'[ProviderPath(prompt_input(rn))].exists
             /\ DeserializeClaudeSettings(fs'[ProviderPath(prompt_input(rn))].data).ok
             /\ EnvBlockAsSetup(BlockOf(fs', prompt_input(rn)),
                                prompt_input(rd), prompt_input(rh))]_vars

\* a saved profile with an empty default model and a haiku model
C7_Witness ==
    /\ <<"a">> \in registered
    /\ fs[ProviderPath(<<"a">>)].exists
    /\ "ANTHROPIC_DEFAULT_HAIKU_MODEL" \in DOMAIN BlockOf(fs, <<"a">>)
    /\ "ANTHROPIC_MODEL" \notin DOMAIN BlockOf(fs, <<"a">>)
    /\ "API_TIMEOUT_MS" \in DOMAIN BlockOf(fs, <<"a">>)

\* C10: list_providers returns, in ascending order and without duplicates,
\* exactly the names of the profiles set up and not since removed.
C10_ListExact ==
    listed.valid =>
        /\ {listed.names[i] : i \in 1..Len(listed.names)} = registered
        /\ \A i, j \in 1..Len(listed.names) :
               i < j => LexLess(listed.names[i], listed.names[j])

-----------------------------------------------------------------------------
(* Shell integration on its own: register and unregister applied to        *)
(* function files and rc files as the user may have left them              *)

ShellNames == {<<"a">>, <<"a", "b">>, <<"b">>}

\* function files before the first call: none, other text, text whose first
\* line is an indented marker, blanks only
InitFuncFiles ==
    {NoText,
     TextFile(<<"X", "NL">>),
     TextFile(<<"SP", "MK", "a", "NL", "X", "NL">>),
     TextFile(<<"SP", "NL">>)}

\* rc files before the first call: none, other text, the source line already
\* there, the source line commented out
InitRcFiles(shell) ==
    LET source_line == source_command(shell, FuncPath(shell))
    IN {NoText,
        TextFile(<<"SP", "X", "NL", "NL">>),
        TextFile(<<"X", "NL">> \o source_line \o <<"NL">>),
        TextFile(<<"#">> \o source_line \o <<"NL">>)}

FuncFiles(f) == <<f[FuncPath("Bash")], f[FuncPath("Zsh")]>>

InitShell ==
    /\ \E fb \in InitFuncFiles, fz \in {NoText, TextFile(<<"X", "NL">>)},
          rb \in InitRcFiles("Bash"), rz \in {NoText} :
          fs = [p \in Paths |->
                  IF p = FuncPath("Bash") THEN fb
                  ELSE IF p = FuncPath("Zsh") THEN fz
                  ELSE IF p = RcPath("Bash") THEN rb
                  ELSE IF p = RcPath("Zsh") THEN rz
                  ELSE IF IsJsonPath(p) THEN NoJson
                  ELSE NoText]
    /\ run = [i \in {1} |-> IdleRun]
    /\ listed = NoList
    /\ registered = {}
    /\ last = NoOp

Record(op, name) ==
    [op |-> op, name |-> name,
     any_register |-> last.any_register \/ op = "register"]

\* removing a block between two others leaves both blank separator lines, so
\* function files grow without limit; the model stops at MaxFileLen tokens
MaxFileLen == 48

Fits(f) == \A sh \in Shells : Len(f[FuncPath(sh)].data) <= MaxFileLen

\* register: append_provider_function(name)
Register(name) ==
    /\ Fits(append_provider_function(fs, name))
    /\ fs' = append_provider_function(fs, name)
    /\ last' = Record("register", name)
    /\ registered' = registered \cup {name}
    /\ UNCHANGED <<run, listed>>

\* unregister: remove_provider_function(name)
Unregister(name) ==
    /\ fs' = remove_provider_function(fs, name)
    /\ last' = Record("unregister", name)
    /\ registered' = registered \ {name}
    /\ UNCHANGED <<run, listed>>

NextShell ==
    \/ \E name \in ShellNames : Register(name)
    \/ \E name \in ShellNames : Unregister(name)

SpecShell == InitShell /\ [][NextShell]_vars

-----------------------------------------------------------------------------
(* Claims about the function files and rc files                            *)

BlockLines(name) == Lines(func_content(name))

\* the block generated for `name` stands in the file, line for line
HasBlock(file, name) ==
    /\ file.exists
    /\ \E i \in 1..Len(Lines(file.data)) :
          /\ i + Len(BlockLines(name)) - 1 <= Len(Lines(file.data))
          /\ SubSeq(Lines(file.data), i, i + Len(BlockLines(name)) - 1) = BlockLines(name)

\* C3: for distinct names p and q, one a prefix of the other or not,
\* registering or unregistering p leaves the block of q in each function file
\* present and unchanged.
C3_OtherBlocksKept ==
    [][\A p \in ShellNames, q \in ShellNames, sh \in Shells :
          (/\ p # q
           /\ Register(p) \/ Unregister(p)
           /\ HasBlock(fs[FuncPath(sh)], q))
              => HasBlock(fs'[FuncPath(sh)], q)]_vars

\* C4: from any function-file content, register(p) a second time leaves each
\* function file as the first register(p) left it.
C4_RegisterIdempotent ==
    [][\A p \in ShellNames :
          Register(p) => FuncFiles(append_provider_function(fs', p)) = FuncFiles(fs')]_vars

\* no line of the file is the marker line of `name`
NoBlockFor(file, name) ==
    \A i \in 1..Len(Lines(file.data)) : Lines(file.data)[i] # Marker(name)

\* C5: for a function file holding no block for p, register(p) followed by
\* unregister(p) leaves exactly the content the file had before; a file that
\* was absent or blank does not exist afterwards.
C5_RegisterUnregisterRoundTrip ==
    [][\A p \in ShellNames, sh \in Shells :
          (Register(p) /\ NoBlockFor(fs[FuncPath(sh)], p))
              => LET before == fs[FuncPath(sh)]
                     after == remove_provider_function(fs', p)[FuncPath(sh)]
                 IN IF ~before.exists \/ Trim(before.data) = <<>>
                    THEN ~after.exists
                    ELSE after = before]_vars

\* the number of lines of the rc file that source the dialect's function file
SourceLines(f, shell) ==
    Cardinality({i \in 1..Len(Lines(f[RcPath(shell)].data)) :
                    Trim(Lines(f[RcPath(shell)].data)[i])
                        = source_command(shell, FuncPath(shell))})

\* C9: each rc file holds at most one line sourcing its function file, and
\* exactly one once a register has been made.
C9_OneSourceLine ==
    \A sh \in Shells :
        /\ SourceLines(fs, sh) <= 1
        /\ last.any_register => SourceLines(fs, sh) = 1

-----------------------------------------------------------------------------
(* Shell integration from a fresh installation: the function files are     *)
(* absent or blank before the first call                                   *)

InitFresh ==
    /\ \E fb \in {NoText, TextFile(<<"SP", "NL">>)}, fz \in {NoText},
          rb \in InitRcFiles("Bash"), rz \in {NoText} :
          fs = [p \in Paths |->
                  IF p = FuncPath("Bash") THEN fb
                  ELSE IF p = FuncPath("Zsh") THEN fz
                  ELSE IF p = RcPath("Bash") THEN rb
                  ELSE IF p = RcPath("Zsh") THEN rz
                  ELSE IF IsJsonPath(p) THEN NoJson
                  ELSE NoText]
    /\ run = [i \in {1} |-> IdleRun]
    /\ listed = NoList
    /\ registered = {}
    /\ last = NoOp

SpecFresh == InitFresh /\ [][NextShell]_vars

Blank(file) == Trim(file.data) = <<>>

\* the file is blank or holds nothing but the block of `name`
OnlyBlockOf(file, name) == Blank(file) \/ Trim(file.data) = Trim(func_content(name))

\* after a call, each function file is absent or holds at least one block
AbsentOrHoldsBlock ==
    last.op # "none" =>
        \A sh \in Shells :
            \/ ~fs[FuncPath(sh)].exists
            \/ \E n \in ShellNames : HasBlock(fs[FuncPath(sh)], n)

\* C11: unregister never leaves an empty or blank function file: when nothing
\* but blanks remains the file is deleted, and where no file exists none is
\* created; so after any calls of register and unregister each function file
\* is absent or holds at least one block.
C11_NoBlankFunctionFile ==
    /\ []AbsentOrHoldsBlock
    /\ [][\A p \in ShellNames, sh \in Shells :
             Unregister(p) =>
                 /\ fs'[FuncPath(sh)].exists => ~Blank(fs'[FuncPath(sh)])
                 /\ ~fs[FuncPath(sh)].exists => ~fs'[FuncPath(sh)].exists
                 /\ OnlyBlockOf(fs[FuncPath(sh)], p) => ~fs'[FuncPath(sh)].exists]_vars

\* unregister has just deleted a function file that held one block
C11_Witness ==
    /\ last.op = "unregister"
    /\ last.any_register
    /\ ~fs[FuncPath("Bash")].exists
    /\ ~fs[FuncPath("Zsh")].exists


\* C12: unregister never creates, modifies or deletes an rc file, also when
\* it deletes the function file that the source line names.
C12_UnregisterKeepsRc ==
    [][\A p \in ShellNames, sh \in Shells :
          Unregister(p) => fs'[RcPath(sh)] = fs[RcPath(sh)]]_vars

\* unregister has deleted the function file and the source line is still there
C12_Witness ==
    /\ last.op = "unregister"
    /\ last.any_register
    /\ ~fs[FuncPath("Bash")].exists
    /\ SourceLines(fs, "Bash") = 1
    /\ SourceLines(fs, "Zsh") = 1


-----------------------------------------------------------------------------
(* Claims about the result and the write order of run_with_provider        *)

Errors ==
    {"ErrNotFound", "ErrProfileParse", "ErrSettingsRead", "ErrSettingsParse",
     "ErrLaunch", "ErrRestoreWrite", "ErrNonZero"}

\* C13: run_with_provider returns Ok exactly when the child was launched,
\* exited with status zero and the restoring write succeeded; a child that
\* exits non-zero or cannot be launched gives an error; and when the
\* non-zero-status error is returned the snapshot is already back in
\* settings.json.
C13_ResultOfRun ==
    \A i \in DOMAIN run :
        run[i].pc = "returned" =>
            /\ run[i].result \in Errors \cup {"Ok"}
            /\ run[i].result = "Ok" <=>
                  (run[i].launched /\ run[i].status = "zero" /\ run[i].writes = 2)
            /\ run[i].status = "nonzero" => run[i].result \in Errors
            /\ (run[i].writes >= 1 /\ ~run[i].launched) => run[i].result = "ErrLaunch"
            /\ run[i].result = "ErrNonZero" =>
                  /\ run[i].status = "nonzero"
                  /\ run[i].writes = 2
                  /\ fs[SettingsPath] = JsonFile(run[i].snapshot)

\* the child exited non-zero, the error is returned, the original is back
C13_Witness ==
    \E i \in DOMAIN run :
        /\ run[i].pc = "returned"
        /\ run[i].result = "ErrNonZero"
        /\ run[i].launched
        /\ fs[SettingsPath] = run[i].before


-----------------------------------------------------------------------------
(* Two invocations of `use` against the same settings.json                 *)

Procs == {1, 2}

\* a profile as setup writes it
SetupProfile ==
    JsonFile(to_string_pretty(SerializeClaudeSettings(
        SetupEnv(<<"u">>, <<"k">>, <<"m">>, <<>>))))

InitConc ==
    /\ \E st \in {s \in InitSettings : s.exists /\ s.data.ok /\ IsObj(s.data.doc)},
          hp \in {h \in InitHandProfiles : h.exists /\ h.data.ok} :
          fs = [p \in Paths |->
                  IF p = SettingsPath THEN st
                  ELSE IF p = ProviderPath(HandName) THEN hp
                  ELSE IF p = ProviderPath(<<"a">>) THEN SetupProfile
                  ELSE IF IsJsonPath(p) THEN NoJson
                  ELSE NoText]
    /\ run = [i \in Procs |-> IdleRun]
    /\ listed = NoList
    /\ registered = {<<"a">>, HandName}
    /\ last = NoOp

NextConc ==
    \/ Use
    \/ Swap
    \/ Spawn
    \/ Exit
    \/ Restore
    \/ Return

SpecConc == InitConc /\ [][NextConc]_vars

\* what invocation i wrote at line 530
MergedOf(r) == to_string_pretty(Merged(from_str(r.snapshot).doc, r.env))

\* j read settings.json (line 523) after i's write of line 530 and before
\* i's write of line 539
SnapshotOfMerged(i, j) ==
    /\ i # j
    /\ run[i].writes >= 1
    /\ run[j].pc \notin {"idle", "returned", "panicked"}
    /\ run[j].snapshot = MergedOf(run[i])
    /\ JsonFile(MergedOf(run[i])) # run[i].before

\* C14: two overlapping invocations can break the restoration: when the
\* second took its snapshot after the first wrote its merged settings and
\* restores after the first has restored, settings.json ends as the first
\* invocation's merged document, not as it was before the first started.
C14_OverlapBreaksRestore ==
    [][\A i \in Procs, j \in Procs :
          (/\ SnapshotOfMerged(i, j)
           /\ run[i].pc \in {"restored", "returned"}
           /\ RunRestore(j, TRUE))
          => /\ fs'[SettingsPath] = JsonFile(MergedOf(run[i]))
             /\ fs'[SettingsPath] # run[i].before]_vars

\* both have returned Ok and settings.json is not what it was before the
\* first invocation started
C14_Witness ==
    /\ run[1].pc = "returned"
    /\ run[2].pc = "returned"
    /\ run[1].result = "Ok"
    /\ run[2].result = "Ok"
    /\ run[2].before = JsonFile(MergedOf(run[1]))
    /\ run[2].snapshot = MergedOf(run[1])
    /\ fs[SettingsPath] = JsonFile(run[2].snapshot)
    /\ fs[SettingsPath] # run[1].before


-----------------------------------------------------------------------------
(* Claims about build_env_object on any profile                            *)

NullOrEmpty(v) == v[1] = "null" \/ (v[1] = "str" /\ v[2] = <<>>)

\* the env member of a profile document, as written in the file
ProfileEnvOf(r) ==
    LET top == r.profile.data.doc[2]
    IN IF "env" \in DOMAIN top THEN top["env"][2] ELSE EmptyMap

\* C15: for every profile that loads, hand-edited ones included, the
\* environment block has a key exactly for the profile fields that are
\* present and neither null nor the empty string, so no value in the block
\* is null or an empty string.
C15_OnlyNonEmptyFields ==
    \A i \in DOMAIN run :
        run[i].pc \in {"loaded", "swapped", "running", "exited", "restored"} =>
            LET prof == ProfileEnvOf(run[i])
                block == build_env_object(run[i].env)
            IN /\ \A k \in EnvFields :
                     EnvKey[k] \in DOMAIN block <=>
                        (k \in DOMAIN prof /\ ~NullOrEmpty(prof[k]))
               /\ \A K \in DOMAIN block : ~NullOrEmpty(block[K])


-----------------------------------------------------------------------------
(* Claims about the effect of one register call                            *)

\* the lines outside the blocks of `marker`, a block running from a line
\* equal to the marker to the next line that is "}" once trimmed
RECURSIVE OutsideLines(_, _, _)
OutsideLines(lines, marker, inside) ==
    IF lines = <<>> THEN <<>>
    ELSE IF Head(lines) = marker THEN OutsideLines(Tail(lines), marker, TRUE)
    ELSE IF inside
         THEN OutsideLines(Tail(lines), marker, Trim(Head(lines)) # <<"RB">>)
         ELSE <<Head(lines)>> \o OutsideLines(Tail(lines), marker, FALSE)

RECURSIVE NonBlank(_)
NonBlank(lines) ==
    IF lines = <<>> THEN <<>>
    ELSE IF Trim(Head(lines)) = <<>> THEN NonBlank(Tail(lines))
    ELSE <<Head(lines)>> \o NonBlank(Tail(lines))

\* the function file `new` is `old` after an upsert of p
UpsertOf(old, new, p) ==
    LET L == Lines(new.data)
        n == Len(L)
        m == Len(BlockLines(p))
        rest == SubSeq(L, 1, n - m)
        kept == NonBlank(OutsideLines(Lines(old.data), Marker(p), FALSE))
    IN /\ new.exists
       /\ n >= m
       /\ SubSeq(L, n - m + 1, n) = BlockLines(p)
       /\ Cardinality({i \in 1..n : L[i] = Marker(p)}) = 1
       /\ NonBlank(rest) = kept
       /\ IF kept = <<>> THEN rest = <<>>
          ELSE /\ Len(rest) >= 2
               /\ Trim(rest[Len(rest)]) = <<>>
               /\ Trim(rest[Len(rest) - 1]) # <<>>

\* C16: after register(p), whatever the function file held, the file holds
\* exactly one block for p, the block is the newly generated one and ends
\* the file, one blank line separates it from what precedes it (if anything
\* does), and the lines that were outside p's earlier blocks precede it
\* unchanged and in their order.
C16_UpsertOneBlockLast ==
    [][\A p \in ShellNames, sh \in Shells :
          Register(p) => UpsertOf(fs[FuncPath(sh)], fs'[FuncPath(sh)], p)]_vars


\* C17: register loses no rc-file content: an rc file that has the source
\* line is left as it is; one that exists without that line becomes its
\* content, trimmed, followed by the source line; one that does not exist is
\* created holding only the source line.
C17_RcContentKept ==
    [][\A p \in ShellNames, sh \in Shells :
          Register(p) =>
              LET old == fs[RcPath(sh)]
                  new == fs'[RcPath(sh)]
                  source_line == source_command(sh, FuncPath(sh))
              IN /\ (old.exists /\ SourceLines(fs, sh) >= 1) => new = old
                 /\ (old.exists /\ SourceLines(fs, sh) = 0) =>
                       new = TextFile(Trim(old.data) \o <<"NL">>
                                      \o source_line \o <<"NL">>)
                 /\ ~old.exists => new = TextFile(source_line \o <<"NL">>)]_vars


\* what holds of the writes of one invocation in every state
WritesInOrder ==
    \A i \in DOMAIN run :
        /\ run[i].writes <= 2
        /\ run[i].launched => run[i].writes >= 1
        /\ run[i].writes = 2 => (run[i].launched /\ run[i].status # "none")
        /\ run[i].pc = "running" =>
              /\ run[i].writes = 1
              /\ fs[SettingsPath] = JsonFile(MergedOf(run[i]))
        /\ run[i].pc = "exited" => fs[SettingsPath] = JsonFile(MergedOf(run[i]))

\* C18: one run_with_provider writes settings.json at most twice: the merged
\* document before the child is launched, the snapshot only after the child
\* has exited, and nothing between launch and exit, so the child sees the
\* merged settings as long as it lives.
C18_WriteOrder ==
    /\ []WritesInOrder
    /\ [][\A i \in DOMAIN run :
             /\ run[i].pc = "running" => fs'[SettingsPath] = fs[SettingsPath]
             /\ (~Idle(run[i]) /\ fs'[SettingsPath] # fs[SettingsPath]) =>
                   \/ /\ run[i].pc = "loaded"
                      /\ ~run[i].launched
                      /\ fs'[SettingsPath] = JsonFile(MergedOf(run[i]))
                   \/ /\ run[i].pc = "exited"
                      /\ fs'[SettingsPath] = JsonFile(run[i].snapshot)]_vars

\* a whole run: two writes, the child launched and exited in between
C18_Witness ==
    \E i \in DOMAIN run :
        /\ run[i].pc = "returned"
        /\ run[i].result = "Ok"
        /\ run[i].writes = 2
        /\ run[i].launched
        /\ JsonFile(MergedOf(run[i])) # run[i].before


-----------------------------------------------------------------------------
(* setup and remove over profile names one of which is a prefix of another *)

ProfileNameInputs == {<<"a", "NL">>, <<"a", "b", "NL">>, <<"b", "NL">>}

InitProfiles ==
    /\ fs = [p \in Paths |-> IF IsJsonPath(p) THEN NoJson ELSE NoText]
    /\ run = [i \in {1} |-> IdleRun]
    /\ listed = NoList
    /\ registered = {}
    /\ last = NoOp

\* a setup that succeeds: name, base URL and API key are all given
SetupNamed ==
    \E rn \in ProfileNameInputs, rd \in ModelInputs :
        /\ setup_provider_interactive(rn, <<"u", "NL">>, <<"k", "NL">>, rd, <<"NL">>)
        /\ Fits(fs')

NextProfiles ==
    \/ SetupNamed
    \/ Remove

SpecProfiles == InitProfiles /\ [][NextProfiles]_vars

Listed(f, name) ==
    \E i \in 1..Len(list_providers(f)) : list_providers(f)[i] = name

\* C19: after any successful setups and removes, over names one of which may
\* be a prefix of another, a profile is listed exactly when both function
\* files hold the wrapper-function block of that name.
C19_ListedIffBlocks ==
    \A name \in ShellNames :
        Listed(fs, name) <=>
            (/\ HasBlock(fs[FuncPath("Bash")], name)
             /\ HasBlock(fs[FuncPath("Zsh")], name))

====
